---- MODULE Spec2Model ----
(***************************************************************************)
(* A model of the NodeFinder search controller                             *)
(* (nodefinder/search/_controller.py) and of the result container          *)
(* (nodefinder/_result/_result.py).                                        *)
(*                                                                         *)
(* The domain is one-dimensional and periodic: the positions inside the    *)
(* limits are 0 .. LimitSize-1, distances are minimum-image distances on   *)
(* that ring.  A simplex is identified by its value: a mesh simplex by     *)
(* the mesh vertex it is built on, a refinement simplex by the position    *)
(* the stencil was translated to and the stencil entry.                    *)
(***************************************************************************)
EXTENDS Integers, Sequences, FiniteSets, TLC

----------------------------------------------------------------------------
(* Bounds of the model *)

\* extent of the (single, periodic) dimension: positions 0 .. LimitSize-1
LimitSize == 2
\* largest initial_mesh_size the caller passes (number of mesh vertices)
MaxMesh == 1
\* largest refinement_mesh_size the caller passes (number of stencil entries)
MaxStencil == 2
\* largest num_minimize_parallel the caller passes
MaxParallel == 2
\* number of minimizations scheduled in one run that the model follows
MaxTasks == 5
\* the same, in the runs that write checkpoints
MaxCkptTasks == 2
\* number of Controller constructions (runs) in one behaviour
MaxRuns == 2
\* results added to a result container used on its own
MaxResults == 3
\* the largest maxiter and maxfev root_nelder_mead is given
MaxIter == 3
MaxFev == 6
\* the objective takes the values 0 .. MaxF
MaxF == 2
\* futures held at a time in the runs followed without a bound on their length
MaxFutures == 3
\* minimizations scheduled in one run of a search that is aborted and resumed
MaxResumeTasks == 3
\* largest number of dimensions and largest mesh size per dimension that
\* generate_simplices is called with
MaxDim == 2
MaxMeshGen == 3
\* minimizations scheduled in the runs whose container is queried
MaxQueryTasks == 3

\* gap_threshold passed by the caller
GapThreshold == 1
\* largest objective value the minimizer reports
MaxValue == GapThreshold + 1
\* dist_cutoff = feature_size / _DIST_CUTOFF_FACTOR
DistCutoff == 2
\* recheck_count_cutoff passed by the caller
RecheckCountCutoff == 1
\* the count_cutoff of _check_pos_refinement when none is passed
DefaultCountCutoff == 0

Pos == 0 .. (LimitSize - 1)
\* positions a minimizer can report: inside the limits, or one period beyond
RawPos == 0 .. LimitSize

----------------------------------------------------------------------------
(* Coordinate system *)

\* wrap a periodic component into the limits
normalize_position(pos) == pos % LimitSize

\* minimum-image distance
distance(a, b) ==
    LET d == IF a >= b THEN a - b ELSE b - a
    IN  IF d <= LimitSize - d THEN d ELSE LimitSize - d

----------------------------------------------------------------------------
(* Results *)

\* what a minimization returns
Results == [pos : RawPos, value : 0 .. MaxValue, success : BOOLEAN]

\* a test that looks at the value only
IsRejectedByValue(gap_threshold_, res) == res.value > gap_threshold_

\* add_result's test: the result is no node
IsRejected(gap_threshold_, res) ==
    (~res.success) \/ res.value > gap_threshold_

\* add_result on a container <<nodes, rejected_results>> built with
\* gap_threshold_: the container after the call and the value returned
add_result(gap_threshold_, nodes_, rejected_, res) ==
    LET r == [res EXCEPT !.pos = normalize_position(res.pos)]
    IN  IF IsRejected(gap_threshold_, r)
        THEN [nodes |-> nodes_, rejected_results |-> Append(rejected_, r),
              ret |-> FALSE]
        ELSE [nodes |-> Append(nodes_, r), rejected_results |-> rejected_,
              ret |-> TRUE]

\* a constructor that ingests the first of the minimization_results only
IngestFirst(gap_threshold_, nodes_, rejected_, results) ==
    IF results = <<>>
    THEN [nodes |-> nodes_, rejected_results |-> rejected_]
    ELSE LET a == add_result(gap_threshold_, nodes_, rejected_, Head(results))
         IN  [nodes |-> a.nodes, rejected_results |-> a.rejected_results]

\* ResultContainer.__init__: ingest minimization_results one by one
RECURSIVE Ingest(_, _, _, _)
Ingest(gap_threshold_, nodes_, rejected_, results) ==
    IF results = <<>>
    THEN [nodes |-> nodes_, rejected_results |-> rejected_]
    ELSE LET a == add_result(gap_threshold_, nodes_, rejected_, Head(results))
         IN  Ingest(gap_threshold_, a.nodes, a.rejected_results, Tail(results))

Min(a, b) == IF a <= b THEN a ELSE b
Max(a, b) == IF a >= b THEN a ELSE b

\* number of cells of the cell list (per dimension)
NumCells ==
    IF DistCutoff = 0 THEN 100
    ELSE Min(100, Max(1, LimitSize \div DistCutoff))

\* the cell of a position: floor(frac * num_cells), frac = pos / size
Cell(pos) == (pos * NumCells) \div LimitSize

\* the cell and its two neighbours, periodic
NeighbourCells(c) == {(c + NumCells - 1) % NumCells, c, (c + 1) % NumCells}

\* CellList.get_neighbour_values: the values stored in the neighbour cells
get_neighbour_values(nodes_, pos) ==
    SelectSeq(nodes_, LAMBDA r : Cell(r.pos) \in NeighbourCells(Cell(pos)))

\* CellList.values(): flattened over the cells
RECURSIVE CellValues(_, _)
CellValues(nodes_, c) ==
    IF c >= NumCells THEN <<>>
    ELSE SelectSeq(nodes_, LAMBDA r : Cell(r.pos) = c) \o CellValues(nodes_, c + 1)

\* ResultContainer.minimization_results
minimization_results(nodes_, rejected_) == CellValues(nodes_, 0) \o rejected_

\* the candidates that are not at exactly the queried position
get_neighbour_iterator(nodes_, pos) ==
    SelectSeq(get_neighbour_values(nodes_, pos), LAMBDA c : c.pos # pos)

get_neighbour_distance_iterator(nodes_, pos) ==
    LET cand == get_neighbour_iterator(nodes_, pos)
    IN  [i \in 1 .. Len(cand) |-> distance(pos, cand[i].pos)]

\* ResultContainer.get_all_neighbour_distances: the positions of the
\* candidates as one array, and the distances to them
get_all_neighbour_distances(nodes_, pos) ==
    LET cand == get_neighbour_iterator(nodes_, pos)
        positions == [i \in 1 .. Len(cand) |-> cand[i].pos]
    IN  [i \in 1 .. Len(positions) |-> distance(pos, positions[i])]

\* Controller._check_pos_refinement: TRUE unless more than count_cutoff
\* neighbours are closer than dist_cutoff
check_pos_refinement(nodes_, pos, count_cutoff) ==
    LET dists == get_neighbour_distance_iterator(nodes_, pos)
        count == Cardinality({i \in 1 .. Len(dists) : dists[i] < DistCutoff})
    IN  ~(count > count_cutoff)

----------------------------------------------------------------------------
(* Work queues *)

\* a generator that yields the simplex of the first vertex only
generate_first(kind, base, mesh_size) ==
    {<<kind, base, mesh_size, i>> : i \in 1 .. Min(1, mesh_size)}

\* a simplex, by value: kind, the position it is built on, the entry
\* generate_simplices: one simplex per mesh vertex; its vertices depend on
\* the base point, on the mesh size and on the vertex
generate_simplices(kind, base, mesh_size) ==
    {<<kind, base, mesh_size, i>> : i \in 1 .. mesh_size}

MeshSimplices == generate_simplices("mesh", 0, MaxMesh)
RefinementSimplices ==
    UNION {generate_simplices("ref", p, MaxStencil) : p \in Pos}
Simplex == MeshSimplices \cup RefinementSimplices

ObjectStates == {"untracked", "queued", "running", "finished"}

\* SimplexQueue.add_objects
sq_add_objects(q, objs) ==
    [s \in Simplex |-> IF s \in objs THEN "queued" ELSE q[s]]

\* SimplexQueue.pop_queued, for the object popped
sq_pop_queued(q, s) == [q EXCEPT ![s] = "running"]

\* SimplexQueue.set_finished
sq_set_finished(q, s) == [q EXCEPT ![s] = "finished"]

has_queued(q) == \E s \in Simplex : q[s] = "queued"
num_running(q) == Cardinality({s \in Simplex : q[s] = "running"})
finished(q) == ~\E s \in Simplex : q[s] \in {"queued", "running"}

EmptySimplexQueue == [s \in Simplex |-> "untracked"]

----------------------------------------------------------------------------
(* Arguments of the Controller *)

\* a mesh size is an integer or a tuple with one entry per dimension
IntSize(n) == [integral |-> TRUE, n |-> n, t |-> <<>>]
TupleSize(t) == [integral |-> FALSE, n |-> 0, t |-> t]

\* the limits: one (lower, upper) pair per dimension
Limits == <<<<0, LimitSize>>>>

\* a ControllerState as stored in a checkpoint or passed as initial_state;
\* exists = FALSE stands for None (no state, no file)
NoState ==
    [exists |-> FALSE, complete |-> FALSE, gap_threshold |-> GapThreshold,
     results |-> <<>>,
     simplex_queue |-> EmptySimplexQueue, position_queue |-> {}]

\* the state a completed search of the mesh leaves: one node, nothing queued
SampleState ==
    [exists |-> TRUE, complete |-> TRUE, gap_threshold |-> GapThreshold,
     results |-> <<[pos |-> 0, value |-> 0, success |-> TRUE]>>,
     simplex_queue |-> [s \in Simplex |->
                          IF s \in MeshSimplices THEN "finished" ELSE "untracked"],
     position_queue |-> {}]

\* the state an interrupted search leaves: two simplices still running
InterruptedState ==
    [exists |-> TRUE, complete |-> TRUE, gap_threshold |-> GapThreshold,
     results |-> <<[pos |-> 0, value |-> 0, success |-> TRUE]>>,
     simplex_queue |-> [s \in Simplex |->
                          IF s \in MeshSimplices \/ s = <<"ref", 0, MaxStencil, 1>>
                          THEN "running" ELSE "untracked"],
     position_queue |-> {}]

\* a state seeded with two refinement positions next to its one node
SeededState ==
    [exists |-> TRUE, complete |-> TRUE, gap_threshold |-> GapThreshold,
     results |-> <<[pos |-> 0, value |-> 0, success |-> TRUE]>>,
     simplex_queue |-> [s \in Simplex |->
                          IF s \in MeshSimplices THEN "finished" ELSE "untracked"],
     position_queue |-> {0, 1}]

NoArgs ==
    [load |-> FALSE, load_quiet |-> FALSE, initial_state |-> NoState,
     initial_mesh_size |-> IntSize(0), refinement_mesh_size |-> IntSize(0),
     force_initial_mesh |-> FALSE, save_file |-> FALSE,
     num_minimize_parallel |-> 0, recheck_pos_dist |-> TRUE,
     gap_threshold |-> GapThreshold]

InitialMeshSizes ==
    {IntSize(MaxMesh), TupleSize(<<MaxMesh>>), TupleSize(<<MaxMesh, MaxMesh>>)}
RefinementMeshSizes ==
    {IntSize(0), IntSize(MaxStencil), TupleSize(<<MaxStencil>>),
     TupleSize(<<MaxStencil, 1>>)}

\* the argument lists the callers of the model pass; load needs a save_file
\* to load from
ArgLists(initial_states, rechecks, thresholds) ==
    {a \in [load : BOOLEAN, load_quiet : BOOLEAN,
            initial_state : initial_states,
            initial_mesh_size : InitialMeshSizes,
            refinement_mesh_size : RefinementMeshSizes,
            force_initial_mesh : BOOLEAN, save_file : BOOLEAN,
            num_minimize_parallel : 1 .. MaxParallel,
            recheck_pos_dist : rechecks,
            gap_threshold : thresholds] :
        /\ a.load => a.save_file
        /\ a.load_quiet => a.load}

\* the gap thresholds a caller passes
GapThresholds == {GapThreshold - 1, GapThreshold}

\* with the default recheck_pos_dist
Args == ArgLists({NoState, SampleState, InterruptedState}, {TRUE},
                 GapThresholds)

\* len() of a mesh size after check_dimensions expanded an integer
ExpandedSize(limits, mesh_size) ==
    IF mesh_size.integral
    THEN [i \in 1 .. Len(limits) |-> mesh_size.n]
    ELSE mesh_size.t

\* a check that compares the limits with the initial mesh size only
check_dimensions_mesh_only(limits, mesh_size, refinement_mesh_size) ==
    Len(limits) # Len(ExpandedSize(limits, mesh_size))

\* check_dimensions: raises ValueError iff the three lengths differ
check_dimensions_raises(limits, mesh_size, refinement_mesh_size) ==
    LET dim_limits == Len(limits)
        dim_mesh_size == Len(ExpandedSize(limits, mesh_size))
        dim_refinement_mesh_size ==
            Len(ExpandedSize(limits, refinement_mesh_size))
    IN  ~(dim_limits = dim_mesh_size /\ dim_mesh_size = dim_refinement_mesh_size)

RECURSIVE Product(_)
Product(t) == IF t = <<>> THEN 1 ELSE Head(t) * Product(Tail(t))

----------------------------------------------------------------------------
(* State *)

VARIABLES
    args,                  \* arguments the Controller was called with
    pc,                    \* where the caller / create_tasks stands
    exc,                   \* the exception raised to the caller
    run,                   \* number of Controllers constructed so far
    save_file,             \* Controller.save_file is set
    num_minimize_parallel, \* Controller.num_minimize_parallel
    refinement_stencil,    \* number of stencil entries, 0 for None
    initial_state,         \* the state create_state built the run from
    load_result,           \* how io.load ended in create_state, if called
    simplex_queue,         \* state.simplex_queue: simplex -> state
    position_queue,        \* state.position_queue: the queued positions
    nodes,                 \* state.result.nodes, in order of insertion
    rejected_results,      \* state.result.rejected_results
    needs_saving,          \* state.needs_saving
    task_futures,          \* Controller.task_futures: task -> simplex, status
    ntasks,                \* number of minimizations scheduled in this run
    file,                  \* the checkpoint at the save path
    tmp,                   \* the temporary file of a save in progress
    save_pc,               \* where save() stands
    last_save,             \* how the last save() invocation ended
    nm,                    \* the locals of a call of root_nelder_mead
    gen,                   \* the last call of generate_simplices
    query                  \* the last query of the result container

vars ==
    <<args, pc, exc, run, save_file, num_minimize_parallel, refinement_stencil,
      initial_state, load_result, simplex_queue, position_queue, nodes, rejected_results,
      needs_saving, task_futures, ntasks, file, tmp, save_pc, last_save, nm,
      gen, query>>

\* the variables of the Controller and its caller
controller_vars ==
    <<args, pc, exc, run, save_file, num_minimize_parallel, refinement_stencil,
      initial_state, load_result, simplex_queue, position_queue, nodes, rejected_results,
      needs_saving, task_futures, ntasks, file, tmp, save_pc, last_save>>

ctl_vars ==
    <<save_file, num_minimize_parallel, refinement_stencil, initial_state,
      load_result>>
state_vars ==
    <<simplex_queue, position_queue, nodes, rejected_results, needs_saving>>
save_vars == <<file, tmp, save_pc, last_save>>

NoExc == [kind |-> "none", task |-> 0]
NoTasks == [t \in {} |-> 0]

\* no Controller exists
Blank ==
    /\ save_file = FALSE
    /\ num_minimize_parallel = 0
    /\ refinement_stencil = 0
    /\ initial_state = NoState
    /\ load_result = "none"
    /\ simplex_queue = EmptySimplexQueue
    /\ position_queue = {}
    /\ nodes = <<>>
    /\ rejected_results = <<>>
    /\ needs_saving = FALSE
    /\ task_futures = NoTasks
    /\ ntasks = 0
    /\ last_save = "none"

\* the previous Controller is dropped
Dropped ==
    /\ save_file' = FALSE
    /\ num_minimize_parallel' = 0
    /\ refinement_stencil' = 0
    /\ initial_state' = NoState
    /\ load_result' = "none"
    /\ simplex_queue' = EmptySimplexQueue
    /\ position_queue' = {}
    /\ nodes' = <<>>
    /\ rejected_results' = <<>>
    /\ needs_saving' = FALSE
    /\ task_futures' = NoTasks
    /\ ntasks' = 0
    /\ last_save' = "none"

\* ResultContainer.gap_threshold: as passed by the caller
gap_threshold == args.gap_threshold

\* the values the objective takes
FValues == 0 .. MaxF

\* the tolerances as they enter the convergence test: xtol as the binary
\* logarithm of the largest simplex size, in units of the initial size,
\* that is still <= xtol
XtolExps == {-1, 0}
Ftols == {0, 1}

\* what a call of root_nelder_mead is given
NMArgs ==
    [maxiter : 1 .. MaxIter, maxfun : 1 .. MaxFev,
     xtol_exp : XtolExps, ftol : Ftols]

NoResult ==
    [returned |-> FALSE, x |-> 0, fun |-> 0, nit |-> 0, nfev |-> 0,
     status |-> 0, success |-> FALSE]

\* the points at which the objective has been evaluated, with its values
NoValues == [x \in {} |-> 0]

\* no call of root_nelder_mead is in progress
NMIdle ==
    [pc |-> "idle", maxiter |-> 0, maxfun |-> 0, xtol_exp |-> 0, ftol |-> 0,
     fcalls |-> 0, iterations |-> 0, size |-> 0, fsim |-> <<0, 0>>, fxr |-> 0,
     raised |-> FALSE, result |-> NoResult,
     deterministic |-> FALSE, sim |-> <<0, 0>>, values |-> NoValues]

\* generate_simplices has not been called
MeshIdle ==
    [op |-> "none", limits |-> <<>>, mesh_size |-> <<>>, simplices |-> <<>>,
     is_none |-> FALSE]

\* no query has been made
NoQuery == [op |-> "none", pos |-> 0, dists |-> <<>>, ret |-> FALSE]

Init ==
    /\ nm = NMIdle
    /\ query = NoQuery
    /\ gen = MeshIdle
    /\ args = NoArgs
    /\ pc = "idle"
    /\ exc = NoExc
    /\ run = 0
    /\ Blank
    /\ file = NoState
    /\ tmp = NoState
    /\ save_pc = "idle"

----------------------------------------------------------------------------
(* A result container used on its own *)

\* ResultContainer.add_result called on a container without a Controller
AddResultCall(max_results) ==
    /\ pc = "idle"
    /\ Len(nodes) + Len(rejected_results) < max_results
    /\ \E res \in Results :
        LET a == add_result(gap_threshold, nodes, rejected_results, res)
        IN  /\ nodes' = a.nodes
            /\ rejected_results' = a.rejected_results
    /\ UNCHANGED <<nm, gen, query, args, pc, exc, run, ctl_vars, simplex_queue, position_queue,
                   needs_saving, task_futures, ntasks, save_vars>>

----------------------------------------------------------------------------
(* Construction: Controller.__init__ and create_state *)

\* io.load of a checkpoint: the result container is rebuilt from the stored
\* minimization results (ResultContainer.from_hdf5)
io_load(f) ==
    LET c == Ingest(f.gap_threshold, <<>>, <<>>, f.results)
    IN  [f EXCEPT !.results = minimization_results(c.nodes, c.rejected_results)]

\* get_initial_simplices
get_initial_simplices(initial_mesh_size) ==
    generate_simplices("mesh", 0, Product(ExpandedSize(Limits, initial_mesh_size)))

\* create_refinement_stencil: None (0) if the product of the sizes is 0
create_refinement_stencil(refinement_mesh_size) ==
    Product(ExpandedSize(Limits, refinement_mesh_size))

\* a create_state that re-seeds the initial mesh on every given state
mesh_forced_always(a) == TRUE

\* the initial mesh is added to the queue of a given state
mesh_forced(a) == a.force_initial_mesh

\* a handler that re-raises the IOError whatever load_quiet is
load_raises_always(a, load_fails) == load_fails

\* the except clause around io.load: re-raise unless load_quiet
load_raises(a, load_fails) == load_fails /\ ~a.load_quiet

\* create_state: the exception it raises, or the state it returns.
\* io_error: reading the checkpoint fails although the file exists
create_state(a, f, io_error) ==
    LET load_fails == a.load /\ (~f.exists \/ io_error)
        initial == IF a.load /\ ~load_fails THEN io_load(f) ELSE a.initial_state
        c == Ingest(a.gap_threshold, <<>>, <<>>, initial.results)
        mesh == get_initial_simplices(a.initial_mesh_size)
        loaded == IF ~a.load THEN "none"
                  ELSE IF load_fails THEN "IOError" ELSE "ok"
    IN  IF a.load /\ a.initial_state.exists
        THEN [raises |-> "ValueError", load_result |-> "none",
              initial_state |-> NoState,
              nodes |-> <<>>, rejected_results |-> <<>>,
              simplex_queue |-> EmptySimplexQueue, position_queue |-> {}]
        ELSE IF load_raises(a, load_fails)
        THEN [raises |-> "IOError", load_result |-> "IOError",
              initial_state |-> NoState,
              nodes |-> <<>>, rejected_results |-> <<>>,
              simplex_queue |-> EmptySimplexQueue, position_queue |-> {}]
        ELSE IF initial.exists
        THEN [raises |-> "none", load_result |-> loaded,
              initial_state |-> initial,
              nodes |-> c.nodes, rejected_results |-> c.rejected_results,
              simplex_queue |->
                  IF mesh_forced(a)
                  THEN sq_add_objects(initial.simplex_queue, mesh)
                  ELSE initial.simplex_queue,
              position_queue |-> initial.position_queue]
        ELSE [raises |-> "none", load_result |-> loaded,
              initial_state |-> NoState,
              nodes |-> <<>>, rejected_results |-> <<>>,
              simplex_queue |-> sq_add_objects(EmptySimplexQueue, mesh),
              position_queue |-> {}]

\* the caller calls the Controller with an argument list of A; the previous
\* Controller, if any, is dropped
Call(A, max_runs) ==
    /\ pc \in {"idle", "done", "raised", "ctor_error"}
    /\ save_pc = "idle"
    /\ run < max_runs
    /\ \E a \in A : args' = a
    /\ pc' = "call"
    /\ exc' = NoExc
    /\ run' = run + 1
    /\ Dropped
    /\ UNCHANGED <<nm, gen, query, file, tmp, save_pc>>

\* Controller.__init__
Construct ==
    /\ pc = "call"
    /\ \E io_error \in BOOLEAN :
        LET cs == create_state(args, file, io_error)
        IN  IF check_dimensions_raises(Limits, args.initial_mesh_size,
                                       args.refinement_mesh_size)
            THEN /\ pc' = "ctor_error"
                 /\ exc' = [kind |-> "ValueError", task |-> 0]
                 /\ UNCHANGED <<ctl_vars, state_vars>>
            ELSE IF cs.raises # "none"
            THEN /\ pc' = "ctor_error"
                 /\ exc' = [kind |-> cs.raises, task |-> 0]
                 /\ load_result' = cs.load_result
                 /\ UNCHANGED <<save_file, num_minimize_parallel,
                                refinement_stencil, initial_state, state_vars>>
            ELSE /\ pc' = "ready"
                 /\ exc' = NoExc
                 /\ save_file' = args.save_file
                 /\ num_minimize_parallel' = args.num_minimize_parallel
                 /\ refinement_stencil' =
                        create_refinement_stencil(args.refinement_mesh_size)
                 /\ initial_state' = cs.initial_state
                 /\ load_result' = cs.load_result
                 /\ simplex_queue' = cs.simplex_queue
                 /\ position_queue' = cs.position_queue
                 /\ nodes' = cs.nodes
                 /\ rejected_results' = cs.rejected_results
                 /\ needs_saving' = TRUE
    /\ UNCHANGED <<nm, gen, query, args, run, task_futures, ntasks, save_vars>>

\* self.recheck_pos_dist: as passed by the caller
recheck_pos_dist == args.recheck_pos_dist

\* schedule_minimization: a new pending task for the simplex
schedule_minimization(futures, t, simplex) ==
    [x \in DOMAIN futures \cup {t} |->
        IF x = t THEN [simplex |-> simplex, status |-> "pending"]
        ELSE futures[x]]

----------------------------------------------------------------------------
(* The scheduling loop: Controller.create_tasks *)

\* no save() is between its steps: save() is synchronous
Synchronous == save_pc = "idle"

\* run(): create_tasks enters the PeriodicTask context and reaches the loop
Run ==
    /\ pc = "ready"
    /\ pc' = "test"
    /\ UNCHANGED <<nm, gen, query, args, exc, run, ctl_vars, state_vars, task_futures, ntasks,
                   save_vars>>

\* the condition of the outer while loop
LoopCondition == (~finished(simplex_queue)) \/ position_queue # {}

\* the outer while tests its condition: into the fill phase, or out of the
\* loop and of the PeriodicTask context
LoopTest ==
    /\ pc = "test"
    /\ pc' = IF LoopCondition THEN "fill" ELSE "aexit"
    /\ UNCHANGED <<nm, gen, query, args, exc, run, ctl_vars, state_vars, task_futures, ntasks,
                   save_vars>>

\* a fill phase that also schedules when every slot is taken
SlotFreeInclusive == num_running(simplex_queue) <= num_minimize_parallel

\* the fill phase may schedule: a slot is free
SlotFree == num_running(simplex_queue) < num_minimize_parallel

\* the test applied to a popped position: expand it
ExpandPosition(pos) ==
    (~recheck_pos_dist) \/ check_pos_refinement(nodes, pos, RecheckCountCutoff)

\* a drain loop that runs whatever the Simplex Queue holds
DrainAlways == TRUE

\* line 229: positions are drained only while no simplex is queued
DrainCondition == ~has_queued(simplex_queue)

\* fill phase, no simplex queued: pop a position and expand it (or not)
PopPosition ==
    /\ pc = "fill"
    /\ SlotFree
    /\ DrainCondition
    /\ \E pos \in position_queue :
        /\ position_queue' = position_queue \ {pos}
        /\ IF ~ExpandPosition(pos)
           THEN UNCHANGED <<simplex_queue, pc, exc>>
           ELSE IF refinement_stencil = 0
           THEN \* pos + None
                /\ pc' = "aexit"
                /\ exc' = [kind |-> "TypeError", task |-> 0]
                /\ UNCHANGED simplex_queue
           ELSE /\ simplex_queue' =
                      sq_add_objects(simplex_queue,
                          generate_simplices("ref", pos, refinement_stencil))
                /\ UNCHANGED <<pc, exc>>
    /\ needs_saving' = TRUE
    /\ UNCHANGED <<nm, gen, query, args, run, ctl_vars, nodes, rejected_results,
                   task_futures, ntasks, save_vars>>

\* fill phase: pop a queued simplex and schedule its minimization
ScheduleSimplex(max_tasks) ==
    /\ pc = "fill"
    /\ SlotFree
    /\ ntasks < max_tasks
    /\ \E s \in {x \in Simplex : simplex_queue[x] = "queued"} :
        /\ simplex_queue' = sq_pop_queued(simplex_queue, s)
        /\ task_futures' =
              schedule_minimization(task_futures, ntasks + 1, s)
    /\ ntasks' = ntasks + 1
    /\ needs_saving' = TRUE
    /\ UNCHANGED <<nm, gen, query, args, pc, exc, run, ctl_vars, position_queue, nodes,
                   rejected_results, save_vars>>

\* the fill phase is left: the test of line 225 fails, or line 250 breaks
\* after the drain loop found neither a queued simplex nor a queued position
FillExits == SlotFree => (~has_queued(simplex_queue) /\ position_queue = {})

\* the fill phase ends: await asyncio.sleep(0.)
Yield ==
    /\ pc = "fill"
    /\ FillExits
    /\ pc' = "yield"
    /\ UNCHANGED <<nm, gen, query, args, exc, run, ctl_vars, state_vars, task_futures, ntasks,
                   save_vars>>

\* the futures that are done, and those of them that hold an exception
DoneFutures == {t \in DOMAIN task_futures : task_futures[t].status # "pending"}
Exceptions == {t \in DoneFutures : task_futures[t].status = "failed"}

\* create_tasks resumes after the sleep: harvest the done futures
Harvest ==
    /\ pc = "yield"
    /\ Synchronous
    /\ IF Exceptions # {}
       THEN /\ \E t \in Exceptions : exc' = [kind |-> "task", task |-> t]
            /\ pc' = "aexit"
            /\ UNCHANGED task_futures
       ELSE /\ task_futures' =
                  [t \in DOMAIN task_futures \ DoneFutures |-> task_futures[t]]
            /\ pc' = "test"
            /\ UNCHANGED exc
    /\ UNCHANGED <<nm, gen, query, args, run, ctl_vars, state_vars, ntasks, save_vars>>

----------------------------------------------------------------------------
(* The minimization tasks: Controller.run_simplex *)

\* the event loop runs the tasks while create_tasks is suspended
Suspended == pc \in {"yield", "aexit", "gather"} /\ Synchronous

\* a test that takes a refinement stencil for granted
StencilAssumed == TRUE

\* line 289: self.refinement_stencil is not None
StencilConfigured == refinement_stencil # 0

\* process_result: the state after ingesting the result
process_result(res) ==
    LET a == add_result(gap_threshold, nodes, rejected_results, res)
        pos == normalize_position(res.pos)
    IN  [nodes |-> a.nodes,
         rejected_results |-> a.rejected_results,
         position_queue |->
            IF a.ret /\ StencilConfigured
                  /\ check_pos_refinement(a.nodes, pos, DefaultCountCutoff)
            THEN position_queue \cup {pos}
            ELSE position_queue]

\* run_simplex after run_minimization returned: process_result, set_finished
\* R: what the minimizer may report
TaskComplete(R) ==
    /\ Suspended
    /\ \E t \in DOMAIN task_futures, res \in R :
        /\ task_futures[t].status = "pending"
        /\ LET p == process_result(res)
           IN  /\ nodes' = p.nodes
               /\ rejected_results' = p.rejected_results
               /\ position_queue' = p.position_queue
        /\ simplex_queue' = sq_set_finished(simplex_queue, task_futures[t].simplex)
        /\ task_futures' = [task_futures EXCEPT ![t].status = "done"]
    /\ needs_saving' = TRUE
    /\ UNCHANGED <<nm, gen, query, args, pc, exc, run, ctl_vars, ntasks, save_vars>>

\* run_simplex: the objective raises inside run_minimization
TaskFail ==
    /\ Suspended
    /\ \E t \in DOMAIN task_futures :
        /\ task_futures[t].status = "pending"
        /\ task_futures' = [task_futures EXCEPT ![t].status = "failed"]
    /\ UNCHANGED <<nm, gen, query, args, pc, exc, run, ctl_vars, state_vars, ntasks, save_vars>>

----------------------------------------------------------------------------
(* Checkpoints: Controller.save *)

\* a save() that does not look at needs_saving
SaveNeededAlways == save_file

\* the condition under which save() writes
SaveNeeded == save_file /\ needs_saving

\* io.save: what is written for the state
Snapshot ==
    [exists |-> TRUE, complete |-> TRUE, gap_threshold |-> gap_threshold,
     results |-> minimization_results(nodes, rejected_results),
     simplex_queue |-> simplex_queue, position_queue |-> position_queue]

\* a file that io.save left unfinished
Partial == [NoState EXCEPT !.exists = TRUE]

\* after the last save() of a run: the pending exception goes on to the
\* caller, or create_tasks goes on to gather
AfterExit == IF exc.kind # "none" THEN "raised" ELSE "gather"

\* save() raised: out of the final save it reaches the caller
SaveRaised ==
    /\ tmp' = NoState
    /\ save_pc' = "idle"
    /\ last_save' = "raised"
    /\ IF pc = "final_save"
       THEN pc' = "raised" /\ exc' = [kind |-> "save", task |-> 0]
       ELSE UNCHANGED <<pc, exc>>
    /\ UNCHANGED <<file, needs_saving>>

\* save() is invoked: by the timer of the PeriodicTask, or when its block exits
SaveCall ==
    /\ pc \in {"yield", "final_save"}
    /\ save_pc = "idle"
    /\ IF SaveNeeded
       THEN /\ tmp' = Partial
            /\ save_pc' = "open"
            /\ last_save' = "writing"
            /\ UNCHANGED pc
       ELSE /\ last_save' = "skipped"
            /\ pc' = IF pc = "final_save" THEN AfterExit ELSE pc
            /\ UNCHANGED <<tmp, save_pc>>
    /\ UNCHANGED <<nm, gen, query, args, exc, run, ctl_vars, state_vars, task_futures, ntasks,
                   file>>

\* a save() that serializes straight into the target file
SaveWriteInPlace ==
    /\ save_pc = "open"
    /\ \E ok \in BOOLEAN :
        /\ file' = IF ok THEN Snapshot ELSE Partial
        /\ tmp' = NoState
        /\ save_pc' = "idle"
        /\ last_save' = IF ok THEN "written" ELSE "raised"
        /\ needs_saving' = ~ok
        /\ IF pc # "final_save" THEN UNCHANGED <<pc, exc>>
           ELSE IF ok THEN pc' = AfterExit /\ UNCHANGED exc
           ELSE pc' = "raised" /\ exc' = [kind |-> "save", task |-> 0]
    /\ UNCHANGED <<nm, gen, query, args, run, ctl_vars, simplex_queue, position_queue, nodes,
                   rejected_results, task_futures, ntasks>>

\* io.save(self.state, tmpf.name)
SaveWrite ==
    /\ save_pc = "open"
    /\ \E ok \in BOOLEAN :
        IF ok
        THEN /\ tmp' = Snapshot
             /\ save_pc' = "written"
             /\ UNCHANGED <<pc, exc, file, needs_saving, last_save>>
        ELSE SaveRaised
    /\ UNCHANGED <<nm, gen, query, args, run, ctl_vars, simplex_queue, position_queue, nodes,
                   rejected_results, task_futures, ntasks>>

\* os.rename(tmpf.name, self.save_file); needs_saving = False
SaveRename ==
    /\ save_pc = "written"
    /\ \E ok \in BOOLEAN :
        IF ok
        THEN /\ file' = tmp
             /\ tmp' = NoState
             /\ needs_saving' = FALSE
             /\ save_pc' = "idle"
             /\ last_save' = "written"
             /\ pc' = IF pc = "final_save" THEN AfterExit ELSE pc
             /\ UNCHANGED exc
        ELSE SaveRaised
    /\ UNCHANGED <<nm, gen, query, args, run, ctl_vars, simplex_queue, position_queue, nodes,
                   rejected_results, task_futures, ntasks>>

----------------------------------------------------------------------------
(* The end of create_tasks *)

\* the PeriodicTask context is left: its task is stopped, save() runs once more
ExitContext ==
    /\ pc = "aexit"
    /\ pc' = "final_save"
    /\ UNCHANGED <<nm, gen, query, args, exc, run, ctl_vars, state_vars, task_futures, ntasks,
                   save_vars>>

\* await asyncio.gather(*self.task_futures)
Gather ==
    /\ pc = "gather"
    /\ IF Exceptions # {}
       THEN /\ \E t \in Exceptions : exc' = [kind |-> "task", task |-> t]
            /\ pc' = "raised"
       ELSE /\ DoneFutures = DOMAIN task_futures
            /\ pc' = "done"
            /\ UNCHANGED exc
    /\ UNCHANGED <<nm, gen, query, args, run, ctl_vars, state_vars, task_futures, ntasks,
                   save_vars>>

----------------------------------------------------------------------------
(* The minimizer: root_nelder_mead on a one-dimensional x0 *)

\* N = len(x0)
N == Len(Limits)

\* np.argsort and np.take on the function values of the two vertices
SortValues(fsim) == IF fsim[1] <= fsim[2] THEN fsim ELSE <<fsim[2], fsim[1]>>

\* a sort that leaves the vertices where they are
KeepVertices(sim, fsim) == sim

\* np.take(sim, ind, 0): the vertices in the order of their values
SortVertices(sim, fsim) == IF fsim[1] <= fsim[2] THEN sim ELSE <<sim[2], sim[1]>>

\* the vertices of the initial simplex: x0 and y (lines 140-154). A vertex
\* is kept as an integer, in units of (y - x0) / 2 ^ MaxIter, counted from
\* x0: no call halves the simplex more than maxiter - 1 times
X0 == 0
Y0 == 2 ^ MaxIter

\* the points the iteration evaluates, with N = 1: xbar = sim[0]
\* (lines 170-171, 176, 192, 202, 213)
xr(sim) == 2 * sim[1] - sim[N + 1]
xe(sim) == 3 * sim[1] - 2 * sim[N + 1]
xc(sim) == (3 * sim[1] - sim[N + 1]) \div 2
xcc(sim) == (sim[1] + sim[N + 1]) \div 2
xshrink(sim) == sim[1] + (sim[N + 1] - sim[1]) \div 2

\* the values the objective may return at x: any value, but the value it
\* returned there before if it is deterministic
FAt(n, x) ==
    IF n.deterministic /\ x \in DOMAIN n.values THEN {n.values[x]}
    ELSE FValues

\* function_wrapper (lines 79-81): the call is counted, the objective
\* returns f at x
Evaluated(n, x, f) ==
    [n EXCEPT !.fcalls = @ + 1,
              !.values = IF n.deterministic
                         THEN [p \in DOMAIN n.values \cup {x} |->
                                    IF p = x THEN f ELSE n.values[p]]
                         ELSE @]

\* the convergence test of lines 166-167. The simplex of a one-dimensional
\* search is an interval; nm.size is the binary logarithm of its length in
\* units of the initial length: a reflection keeps the length, an expansion
\* doubles it, a contraction or a shrink halves it
converged(n) ==
    /\ n.size <= n.xtol_exp
    /\ Max(n.fsim[1] - n.fsim[N + 1], n.fsim[N + 1] - n.fsim[1]) <= n.ftol

\* a status that looks at the evaluation count only
warnflag_maxfev_only(n) == IF n.fcalls >= n.maxfun THEN 1 ELSE 0

\* lines 227-239
warnflag(n) ==
    IF n.fcalls >= n.maxfun THEN 1
    ELSE IF n.iterations >= n.maxiter THEN 2
    ELSE 0

\* lines 225-259: the OptimizeResult returned
OptimizeResult(n) ==
    [returned |-> TRUE, x |-> n.sim[1],
     fun |-> Min(n.fsim[1], n.fsim[N + 1]),
     nit |-> n.iterations, nfev |-> n.fcalls, status |-> warnflag(n),
     success |-> (warnflag(n) = 0)]

\* lines 216-221: sort, count the iteration, back to the loop test
EndIteration(n, sim, fsim, size) ==
    [n EXCEPT !.sim = SortVertices(sim, fsim), !.fsim = SortValues(fsim),
              !.size = size, !.iterations = @ + 1, !.pc = "loop"]

\* where root_nelder_mead awaits the objective
Awaits == {"x0", "y", "fxr", "fxe", "fxc", "fxcc", "shrink"}

\* root_nelder_mead is called
NMCall ==
    /\ pc = "idle"
    /\ nm.pc \in {"idle", "done", "raised"}
    /\ \E a \in NMArgs, deterministic \in BOOLEAN :
        nm' = [NMIdle EXCEPT !.pc = "x0", !.maxiter = a.maxiter,
                             !.maxfun = a.maxfun, !.xtol_exp = a.xtol_exp,
                             !.ftol = a.ftol,
                             !.deterministic = deterministic,
                             !.sim = <<X0, Y0>>]
    /\ UNCHANGED <<controller_vars, gen, query>>

\* lines 143-163: the objective returns the value at x0, then at the second
\* vertex; the values are sorted and the iteration count starts at 1
NMInitialSimplex ==
    /\ nm.pc \in {"x0", "y"}
    /\ \E f \in FAt(nm, IF nm.pc = "x0" THEN X0 ELSE Y0) :
        nm' = IF nm.pc = "x0"
              THEN [Evaluated(nm, X0, f) EXCEPT !.fsim[1] = f, !.pc = "y"]
              ELSE [Evaluated(nm, Y0, f) EXCEPT
                        !.sim = SortVertices(nm.sim, <<nm.fsim[1], f>>),
                        !.fsim = SortValues(<<nm.fsim[1], f>>),
                        !.iterations = 1, !.pc = "loop"]
    /\ UNCHANGED <<controller_vars, gen, query>>

\* lines 165-172 and 225-259: the loop test and the convergence test; the
\* call goes on to evaluate the reflected point, or returns its result
NMLoop ==
    /\ nm.pc = "loop"
    /\ nm' = IF /\ nm.fcalls < nm.maxfun /\ nm.iterations < nm.maxiter
                /\ ~converged(nm)
             THEN [nm EXCEPT !.pc = "fxr"]
             ELSE [nm EXCEPT !.pc = "done", !.result = OptimizeResult(nm)]
    /\ UNCHANGED <<controller_vars, gen, query>>

\* lines 172-209: the objective returns fxr
NMReflect ==
    /\ nm.pc = "fxr"
    /\ \E fxr \in FAt(nm, xr(nm.sim)) :
        LET n == [Evaluated(nm, xr(nm.sim), fxr) EXCEPT !.fxr = fxr]
        IN  nm' = IF fxr < nm.fsim[1]
                  THEN [n EXCEPT !.pc = "fxe"]
                  ELSE IF fxr < nm.fsim[N]
                  THEN EndIteration(n, [nm.sim EXCEPT ![N + 1] = xr(nm.sim)],
                                    [nm.fsim EXCEPT ![N + 1] = fxr], nm.size)
                  ELSE IF fxr < nm.fsim[N + 1]
                  THEN [n EXCEPT !.pc = "fxc"]
                  ELSE [n EXCEPT !.pc = "fxcc"]
    /\ UNCHANGED <<controller_vars, gen, query>>

\* lines 177-184: the objective returns fxe
NMExpand ==
    /\ nm.pc = "fxe"
    /\ \E fxe \in FAt(nm, xe(nm.sim)) :
        LET n == Evaluated(nm, xe(nm.sim), fxe)
        IN  nm' = IF fxe < nm.fxr
                  THEN EndIteration(n, [nm.sim EXCEPT ![N + 1] = xe(nm.sim)],
                                    [nm.fsim EXCEPT ![N + 1] = fxe],
                                    nm.size + 1)
                  ELSE EndIteration(n, [nm.sim EXCEPT ![N + 1] = xr(nm.sim)],
                                    [nm.fsim EXCEPT ![N + 1] = nm.fxr],
                                    nm.size)
    /\ UNCHANGED <<controller_vars, gen, query>>

\* lines 191-209: the objective returns fxc or fxcc
NMContract ==
    /\ nm.pc \in {"fxc", "fxcc"}
    /\ \E f \in FAt(nm, IF nm.pc = "fxc" THEN xc(nm.sim) ELSE xcc(nm.sim)) :
        LET x == IF nm.pc = "fxc" THEN xc(nm.sim) ELSE xcc(nm.sim)
            n == Evaluated(nm, x, f)
            accepted == IF nm.pc = "fxc" THEN f <= nm.fxr
                        ELSE f < nm.fsim[N + 1]
        IN  nm' = IF accepted
                  THEN EndIteration(n, [nm.sim EXCEPT ![N + 1] = x],
                                    [nm.fsim EXCEPT ![N + 1] = f],
                                    nm.size - 1)
                  ELSE [n EXCEPT !.pc = "shrink"]
    /\ UNCHANGED <<controller_vars, gen, query>>

\* lines 211-214: the objective returns the value at the shrunk vertex
NMShrink ==
    /\ nm.pc = "shrink"
    /\ \E f \in FAt(nm, xshrink(nm.sim)) :
        nm' = EndIteration(Evaluated(nm, xshrink(nm.sim), f),
                           [nm.sim EXCEPT ![N + 1] = xshrink(nm.sim)],
                           [nm.fsim EXCEPT ![N + 1] = f], nm.size - 1)
    /\ UNCHANGED <<controller_vars, gen, query>>

\* the objective raises: wrap_function has counted the call (line 80), the
\* exception leaves root_nelder_mead, which catches nothing
NMObjectiveRaises ==
    /\ nm.pc \in Awaits
    /\ nm' = [nm EXCEPT !.fcalls = @ + 1, !.pc = "raised", !.raised = TRUE]
    /\ UNCHANGED <<controller_vars, gen, query>>

----------------------------------------------------------------------------
(* The queries of the result container *)

\* a Controller exists and its run has not been reported to the caller
Constructed == pc \notin {"idle", "call", "ctor_error"}

QueryNames ==
    {"get_neighbour_distance_iterator", "get_all_neighbour_distances",
     "_check_pos_refinement"}

\* what a query returns for pos on the accepted nodes
QueryResult(op, pos, count_cutoff) ==
    [op |-> op, pos |-> pos,
     dists |-> IF op = "get_neighbour_distance_iterator"
               THEN get_neighbour_distance_iterator(nodes, pos)
               ELSE IF op = "get_all_neighbour_distances"
               THEN get_all_neighbour_distances(nodes, pos)
               ELSE <<>>,
     ret |-> IF op = "_check_pos_refinement"
             THEN check_pos_refinement(nodes, pos, count_cutoff)
             ELSE FALSE]

\* a query that marks the state as changed
QueryCallDirty ==
    /\ Constructed
    /\ \E op \in QueryNames, pos \in Pos,
          count_cutoff \in {DefaultCountCutoff, RecheckCountCutoff} :
        query' = QueryResult(op, pos, count_cutoff)
    /\ needs_saving' = TRUE
    /\ UNCHANGED <<args, pc, exc, run, ctl_vars, simplex_queue,
                   position_queue, nodes, rejected_results, task_futures,
                   ntasks, save_vars, nm, gen>>

\* a caller queries the container of the Controller, or the Controller's
\* check, between two steps of the run: _result.py lines 75-90 and
\* _controller.py lines 296-308 assign to locals only
QueryCall ==
    /\ Constructed
    /\ \E op \in QueryNames, pos \in Pos,
          count_cutoff \in {DefaultCountCutoff, RecheckCountCutoff} :
        query' = QueryResult(op, pos, count_cutoff)
    /\ UNCHANGED <<controller_vars, nm, gen>>

----------------------------------------------------------------------------
(* The meshes: Controller.generate_simplices *)

RECURSIVE Factorial(_)
Factorial(n) == IF n <= 1 THEN 1 ELSE n * Factorial(n - 1)

\* a coordinate is kept as an integer, in units of 1 / Scale: the mesh
\* vertices and the simplex distances of every mesh size up to MaxMeshGen
\* are whole numbers of units
Scale == 2 * Factorial(MaxMeshGen)

\* np.linspace(lower, upper, m): m points, the first at lower, the last (if
\* m > 1) at upper
linspace(lower, upper, m) ==
    [k \in 1 .. m |->
        IF m = 1 THEN Scale * lower
        ELSE Scale * lower + ((k - 1) * Scale * (upper - lower)) \div (m - 1)]

\* itertools.product of a sequence of lists: the last list runs fastest
RECURSIVE ListProduct(_)
ListProduct(lists) ==
    IF lists = <<>> THEN << <<>> >>
    ELSE LET rest == ListProduct(Tail(lists))
             head == Head(lists)
         IN  [k \in 1 .. (Len(head) * Len(rest)) |->
                <<head[((k - 1) \div Len(rest)) + 1]>>
                    \o rest[((k - 1) % Len(rest)) + 1]]

\* a generator whose simplices are the mesh vertices alone
simplex_stencil_flat(limits, mesh_size) ==
    [r \in 1 .. 1 |-> [c \in 1 .. Len(limits) |-> 0]]

\* lines 190-194: dim + 1 rows; row 0 is the vertex itself, row i + 1 is
\* displaced by size / (2 * mesh_size) along dimension i
simplex_stencil(limits, mesh_size) ==
    [r \in 1 .. (Len(limits) + 1) |->
        [c \in 1 .. Len(limits) |->
            IF r = c + 1
            THEN (Scale * (limits[c][2] - limits[c][1])) \div (2 * mesh_size[c])
            ELSE 0]]

\* generate_simplices, with the vertices of each simplex: the list
\* [v + simplex_stencil for v in vertices]
generate_simplices_vertices(limits, mesh_size) ==
    LET vertices ==
            ListProduct([d \in 1 .. Len(limits) |->
                            linspace(limits[d][1], limits[d][2], mesh_size[d])])
        stencil == simplex_stencil(limits, mesh_size)
    IN  [k \in 1 .. Len(vertices) |->
            [r \in 1 .. Len(stencil) |->
                [c \in 1 .. Len(limits) |-> vertices[k][c] + stencil[r][c]]]]

\* the limits and the mesh sizes of the calls: one pair and one size per
\* dimension
LimitPairs == {<<0, 1>>, <<0, 2>>, <<1, 2>>}
MeshInputs ==
    UNION {[1 .. d -> LimitPairs] \X [1 .. d -> 0 .. MaxMeshGen] :
                d \in 1 .. MaxDim}

\* get_initial_simplices: generate_simplices on the limits
GenerateSimplicesCall ==
    /\ pc = "idle"
    /\ \E in \in MeshInputs :
        gen' = [op |-> "generate_simplices", limits |-> in[1],
                 mesh_size |-> in[2],
                 simplices |-> generate_simplices_vertices(in[1], in[2]),
                 is_none |-> FALSE]
    /\ UNCHANGED <<controller_vars, nm, query>>

\* half of refinement_box_size
HalfSizes == {1, 2}

\* create_refinement_stencil: None if the product of the mesh sizes is 0,
\* else generate_simplices on the box around the origin
CreateRefinementStencilCall ==
    /\ pc = "idle"
    /\ \E d \in 1 .. MaxDim, half_size \in HalfSizes :
        \E mesh_size \in [1 .. d -> 0 .. MaxMeshGen] :
            LET limits == [i \in 1 .. d |-> <<-half_size, half_size>>]
            IN  gen' = [op |-> "create_refinement_stencil",
                         limits |-> limits, mesh_size |-> mesh_size,
                         simplices |->
                            IF Product(mesh_size) = 0 THEN <<>>
                            ELSE generate_simplices_vertices(limits, mesh_size),
                         is_none |-> (Product(mesh_size) = 0)]
    /\ UNCHANGED <<controller_vars, nm, query>>

----------------------------------------------------------------------------
(* Specifications *)

\* The scheduler: one run without a save path, from a fresh mesh or from an
\* explicit initial state, with a minimizer whose results are nodes or not.
RunArgs ==
    {a \in ArgLists({NoState, SampleState, InterruptedState, SeededState},
                    BOOLEAN, {GapThreshold}) :
        /\ ~a.load /\ ~a.save_file
        /\ a.initial_mesh_size = IntSize(MaxMesh)
        /\ a.refinement_mesh_size \in {IntSize(0), IntSize(MaxStencil)}}

RunResults ==
    {r \in Results : r.success /\ r.value \in {GapThreshold, GapThreshold + 1}}

Next ==
    \/ Call(RunArgs, 1)
    \/ Construct
    \/ Run
    \/ LoopTest
    \/ PopPosition
    \/ ScheduleSimplex(MaxTasks)
    \/ Yield
    \/ Harvest
    \/ TaskComplete(RunResults)
    \/ TaskFail
    \/ SaveCall
    \/ ExitContext
    \/ Gather

Spec == Init /\ [][Next]_vars

\* Checkpoints: runs that save to and load from the save path, every argument
\* list, a minimizer that reports a node or a failure at one position.
CkptResults ==
    {r \in Results : r.pos = 0 /\ r.value = GapThreshold}

NextCkpt ==
    \/ Call(Args, MaxRuns)
    \/ Construct
    \/ Run
    \/ LoopTest
    \/ PopPosition
    \/ ScheduleSimplex(MaxCkptTasks)
    \/ Yield
    \/ Harvest
    \/ TaskComplete(CkptResults)
    \/ TaskFail
    \/ SaveCall
    \/ SaveWrite
    \/ SaveRename
    \/ ExitContext
    \/ Gather

SpecCkpt == Init /\ [][NextCkpt]_vars

\* The steps of the coroutine create_tasks and of the save() it drives: the
\* event loop resumes a coroutine that is ready to run
MainStep ==
    \/ Construct
    \/ Run
    \/ LoopTest
    \/ PopPosition
    \/ ScheduleSimplex(MaxCkptTasks)
    \/ Yield
    \/ Harvest
    \/ SaveCall
    \/ SaveWrite
    \/ SaveRename
    \/ ExitContext
    \/ Gather

FairSpecCkpt == SpecCkpt /\ WF_vars(MainStep)

\* Runs of any length. A run that goes on for ever holds ever more results
\* and futures; to follow it in finitely many states the model identifies
\* the states that no step of the Controller can tell apart: a future is
\* known by the lowest free number, and of equal results only
\* recheck_count_cutoff + 1 are kept, which decide every count of
\* _check_pos_refinement as all of them would.
Copies(results, r) == Cardinality({i \in 1 .. Len(results) : results[i] = r})

\* the container after a result was added, with the surplus copy left out
Kept(before, after) ==
    IF Len(after) > Len(before)
            /\ Copies(before, after[Len(after)]) > RecheckCountCutoff
    THEN before ELSE after

\* every number for a future is taken
FuturesExhausted == Cardinality(DOMAIN task_futures) >= MaxFutures

\* fill phase: pop a queued simplex and schedule its minimization
ScheduleSimplexAnyRun ==
    /\ pc = "fill"
    /\ SlotFree
    /\ ~FuturesExhausted
    /\ \E s \in {x \in Simplex : simplex_queue[x] = "queued"} :
        LET t == CHOOSE i \in 1 .. MaxFutures :
                    /\ i \notin DOMAIN task_futures
                    /\ \A j \in 1 .. (i - 1) : j \in DOMAIN task_futures
        IN  /\ simplex_queue' = sq_pop_queued(simplex_queue, s)
            /\ task_futures' = schedule_minimization(task_futures, t, s)
    /\ needs_saving' = TRUE
    /\ UNCHANGED <<nm, gen, query, args, pc, exc, run, ctl_vars, position_queue, nodes,
                   rejected_results, ntasks, save_vars>>

\* run_simplex of future t after run_minimization returned
TaskCompletes(t, R) ==
    /\ Suspended
    /\ t \in DOMAIN task_futures
    /\ task_futures[t].status = "pending"
    /\ \E res \in R :
        LET p == process_result(res)
        IN  /\ nodes' = Kept(nodes, p.nodes)
            /\ rejected_results' = Kept(rejected_results, p.rejected_results)
            /\ position_queue' = p.position_queue
    /\ simplex_queue' = sq_set_finished(simplex_queue, task_futures[t].simplex)
    /\ task_futures' = [task_futures EXCEPT ![t].status = "done"]
    /\ needs_saving' = TRUE
    /\ UNCHANGED <<nm, gen, query, args, pc, exc, run, ctl_vars, ntasks, save_vars>>

TaskCompleteAnyRun(R) == \E t \in 1 .. MaxFutures : TaskCompletes(t, R)

\* one run with a refinement stencil, started with no running simplex, with
\* an objective that never raises and a minimizer that reports a node or a
\* rejected result at one position
LoopArgs ==
    {a \in RunArgs : /\ a.refinement_mesh_size = IntSize(MaxStencil)
                     /\ a.initial_state # InterruptedState}

LoopResults == {r \in RunResults : r.pos = 0}

NextLoop ==
    \/ Call(LoopArgs, 1)
    \/ Construct
    \/ Run
    \/ LoopTest
    \/ PopPosition
    \/ ScheduleSimplexAnyRun
    \/ Yield
    \/ Harvest
    \/ TaskCompleteAnyRun(LoopResults)
    \/ SaveCall
    \/ ExitContext
    \/ Gather

SpecLoop == Init /\ [][NextLoop]_vars

\* the steps of create_tasks
LoopMainStep ==
    \/ Construct
    \/ Run
    \/ LoopTest
    \/ PopPosition
    \/ ScheduleSimplexAnyRun
    \/ Yield
    \/ Harvest
    \/ SaveCall
    \/ ExitContext
    \/ Gather

\* the event loop resumes create_tasks whenever it is ready, and every
\* scheduled minimization completes
FairSpecLoop ==
    /\ SpecLoop
    /\ WF_vars(LoopMainStep)
    /\ \A t \in 1 .. MaxFutures : SF_vars(TaskCompletes(t, LoopResults))

\* The minimizer on its own, with any objective
NextNM ==
    \/ NMCall
    \/ NMInitialSimplex
    \/ NMLoop
    \/ NMReflect
    \/ NMExpand
    \/ NMContract
    \/ NMShrink
    \/ NMObjectiveRaises

SpecNM == Init /\ [][NextNM]_vars

\* the steps of root_nelder_mead when the objective returns a value: the
\* event loop resumes the coroutine
NMStep ==
    \/ NMInitialSimplex
    \/ NMLoop
    \/ NMReflect
    \/ NMExpand
    \/ NMContract
    \/ NMShrink

FairSpecNM == SpecNM /\ WF_vars(NMStep)

\* A search that is aborted and resumed: fresh runs with a save path and a
\* refinement stencil, and runs that load the checkpoint the run before left
ResumeArgs ==
    {a \in ArgLists({NoState}, {TRUE}, {GapThreshold}) :
        /\ a.save_file
        /\ a.initial_mesh_size = IntSize(MaxMesh)
        /\ a.refinement_mesh_size = IntSize(MaxStencil)}

NextResume ==
    \/ Call(ResumeArgs, MaxRuns)
    \/ Construct
    \/ Run
    \/ LoopTest
    \/ PopPosition
    \/ ScheduleSimplex(MaxResumeTasks)
    \/ Yield
    \/ Harvest
    \/ TaskComplete(CkptResults)
    \/ TaskFail
    \/ SaveCall
    \/ SaveWrite
    \/ SaveRename
    \/ ExitContext
    \/ Gather

SpecResume == Init /\ [][NextResume]_vars

\* Construction on its own: the meshes of any limits and sizes, and the
\* state a Controller is built with
InitArgs ==
    {a \in ArgLists({NoState, SampleState, InterruptedState, SeededState},
                    {TRUE}, {GapThreshold}) :
        a.num_minimize_parallel = 1}

NextInit ==
    \/ GenerateSimplicesCall
    \/ CreateRefinementStencilCall
    \/ Call(InitArgs, 1)
    \/ Construct

SpecInit == Init /\ [][NextInit]_vars

\* Queries during a run: a fresh run with a save path and a refinement
\* stencil, whose container is queried between its steps
QueryArgs ==
    {a \in ArgLists({NoState}, {TRUE}, {GapThreshold}) :
        /\ a.save_file /\ ~a.load /\ ~a.force_initial_mesh
        /\ a.initial_mesh_size = IntSize(MaxMesh)
        /\ a.refinement_mesh_size = IntSize(MaxStencil)}

QueryResults == {r \in RunResults : r.pos \in Pos}

NextQuery ==
    \/ Call(QueryArgs, 1)
    \/ Construct
    \/ Run
    \/ LoopTest
    \/ PopPosition
    \/ ScheduleSimplex(MaxQueryTasks)
    \/ Yield
    \/ Harvest
    \/ TaskComplete(QueryResults)
    \/ SaveCall
    \/ SaveWrite
    \/ SaveRename
    \/ ExitContext
    \/ Gather
    \/ QueryCall

SpecQuery == Init /\ [][NextQuery]_vars

\* The result container on its own: any result may be added
NextResult == AddResultCall(MaxResults)

SpecResult == Init /\ [][NextResult]_vars

----------------------------------------------------------------------------
(* Properties *)

\* the run started with no simplex in state running
StartedClean == num_running(initial_state.simplex_queue) = 0

NoPendingTask ==
    \A t \in DOMAIN task_futures : task_futures[t].status # "pending"

\* C1 (concurrency bound): in every state of a run started with no running
\* simplex, at most num_minimize_parallel simplices are running; a simplex is
\* scheduled only when num_running < num_minimize_parallel, and the schedule
\* raises num_running by exactly one.
C1_ConcurrencyBound ==
    /\ []((Constructed /\ StartedClean) =>
            num_running(simplex_queue) <= num_minimize_parallel)
    /\ [][(ntasks' = ntasks + 1 /\ StartedClean) =>
            /\ num_running(simplex_queue) < num_minimize_parallel
            /\ num_running(simplex_queue') = num_running(simplex_queue) + 1]_vars

\* a clean run with every slot taken
C1_Witness ==
    /\ Constructed /\ StartedClean
    /\ num_minimize_parallel = MaxParallel
    /\ num_running(simplex_queue) = num_minimize_parallel
    /\ ntasks >= MaxParallel

\* C2 (loop exit): the scheduling loop exits normally only with no queued and
\* no running simplex and no queued position, and then every task scheduled
\* in the run has completed: the final checkpoint and the final wait see no
\* task in flight.
C2_LoopExitNoInFlight ==
    /\ (pc = "test" /\ ~LoopCondition) =>
            /\ ~has_queued(simplex_queue)
            /\ num_running(simplex_queue) = 0
            /\ position_queue = {}
            /\ NoPendingTask
    /\ (pc \in {"final_save", "gather"} /\ exc.kind = "none") => NoPendingTask

\* the run was resumed from a checkpoint with nothing queued or running
ResumedFinished ==
    /\ Constructed
    /\ args.load /\ ~args.force_initial_mesh
    /\ load_result = "ok"
    /\ args.gap_threshold = initial_state.gap_threshold
    /\ ~has_queued(initial_state.simplex_queue)
    /\ num_running(initial_state.simplex_queue) = 0
    /\ initial_state.position_queue = {}

\* the results of a sequence that are nodes under the gap threshold
AcceptedSet(results) ==
    {results[i] : i \in {j \in 1 .. Len(results) :
                            ~IsRejected(gap_threshold, results[j])}}

SeqSet(s) == {s[i] : i \in 1 .. Len(s)}

\* C3 (restart idempotence): a run resumed with load=True, without
\* force_initial_mesh and with the same gap threshold, from a checkpoint with
\* no queued or running simplex and no queued position, schedules no
\* minimization and never evaluates the objective, so no task can fail; it
\* terminates, and its accepted nodes are those of the checkpoint.
C3_RestartIdempotence ==
    /\ [](ResumedFinished =>
            /\ ntasks = 0
            /\ task_futures = NoTasks
            /\ pc \notin {"fill", "yield"}
            /\ exc.kind \in {"none", "save"}
            /\ SeqSet(nodes) = AcceptedSet(initial_state.results))
    /\ (ResumedFinished /\ pc = "ready") ~>
            (ResumedFinished /\ pc \in {"done", "raised"})

\* a resumed run that ended, with the node of its checkpoint
C3_Witness ==
    /\ ResumedFinished
    /\ pc = "done"
    /\ nodes # <<>>
    /\ initial_state.simplex_queue # EmptySimplexQueue

\* C4 (routing): add_result puts a result into the rejected list and returns
\* False iff success is False or value > gap_threshold, and otherwise into
\* the spatial index and returns True; so every result of the index is a
\* success with value <= gap_threshold, no result is in both collections, and
\* each call grows the two collections together by exactly one result.
C4_Routing ==
    /\ [](/\ \A r \in SeqSet(nodes) : r.success /\ r.value <= GapThreshold
          /\ \A r \in SeqSet(rejected_results) :
                (~r.success) \/ r.value > GapThreshold
          /\ SeqSet(nodes) \cap SeqSet(rejected_results) = {})
    /\ [][(<<nodes, rejected_results>>' # <<nodes, rejected_results>>) =>
            /\ Len(nodes') + Len(rejected_results')
                    = Len(nodes) + Len(rejected_results) + 1
            /\ \E res \in Results :
                LET r == [res EXCEPT !.pos = res.pos % LimitSize]
                    ret == add_result(gap_threshold, nodes, rejected_results,
                                      res).ret
                IN  IF (~res.success) \/ res.value > GapThreshold
                    THEN /\ rejected_results' = Append(rejected_results, r)
                         /\ nodes' = nodes
                         /\ ret = FALSE
                    ELSE /\ nodes' = Append(nodes, r)
                         /\ rejected_results' = rejected_results
                         /\ ret = TRUE]_vars

\* a container holding a node, a failed minimization and a minimum above the
\* threshold
C4_Witness ==
    /\ pc = "idle"
    /\ Len(nodes) = 1
    /\ \E i, j \in 1 .. Len(rejected_results) :
        /\ ~rejected_results[i].success
        /\ rejected_results[i].value <= GapThreshold
        /\ rejected_results[j].success

\* C5 (draining before the re-raise): when the error of a failed task is
\* re-raised to the caller, no other scheduled task is still pending.
C5_RaisedAfterDraining ==
    (pc = "raised" /\ exc.kind = "task") => NoPendingTask

\* the tasks that fail in a step
Failing ==
    {t \in DOMAIN task_futures :
        /\ task_futures[t].status = "pending"
        /\ task_futures'[t].status = "failed"}

\* a harvest step that finds an exception raises one of those it finds
C6_RaisesOne ==
    [][(pc = "yield" /\ Exceptions # {} /\ pc' # "yield") =>
            /\ pc' = "aexit"
            /\ exc'.kind = "task"
            /\ exc'.task \in Exceptions]_vars

\* from the failure of a task on, nothing is popped and nothing is scheduled
C6_NothingStarted ==
    [][(Exceptions # {} /\ run' = run) =>
            /\ ntasks' = ntasks
            /\ position_queue \subseteq position_queue'
            /\ \A s \in Simplex : simplex_queue[s] = "queued" =>
                                    simplex_queue'[s] = "queued"]_vars

\* the simplex of a failed task is not finished
C6_NeverFinished ==
    \A t \in Exceptions : simplex_queue[task_futures[t].simplex] # "finished"

\* the step in which a task fails ingests no result
C6_NothingIngested ==
    [][Failing # {} => UNCHANGED <<nodes, rejected_results>>]_vars

\* C6 (fail-fast): a harvest step that finds a failed task aborts the run by
\* raising one of the exceptions found; between the failure and the abort no
\* simplex is popped or scheduled and no position is popped; the simplex of
\* the failed task is never marked finished, and no result of the task is
\* ingested.
C6_FailFast ==
    /\ C6_RaisesOne
    /\ C6_NothingStarted
    /\ []C6_NeverFinished
    /\ C6_NothingIngested

\* C7 (save iff needed): an invocation of save() writes the checkpoint iff a
\* save path is configured and needs_saving is true; a successful write sets
\* needs_saving to false, so with needs_saving false the file holds the
\* current state and a further save() writes nothing.
C7_SaveIffNeeded ==
    /\ [](save_pc # "idle" => (save_file /\ needs_saving))
    /\ []((Constructed /\ save_file /\ ~needs_saving) => file = Snapshot)
    /\ [][((save_pc = "idle" /\ save_pc' = "open") =>
                (save_file /\ needs_saving))
           /\ ((save_pc = "idle" /\ save_pc' = "idle"
                    /\ last_save' = "skipped"
                    /\ (last_save # "skipped" \/ pc = "final_save")) =>
                (~(save_file /\ needs_saving) /\ file' = file))
           /\ ((save_pc = "written" /\ last_save' = "written") =>
                (~needs_saving' /\ file' = Snapshot))]_vars

\* a save() that wrote nothing after one that wrote the checkpoint
C7_Witness ==
    /\ last_save = "skipped"
    /\ save_file /\ ~needs_saving
    /\ file.exists
    /\ ntasks > 0

\* C8 (atomic persistence): if a write fails, while serializing to the
\* temporary file or while renaming it, the target file is unchanged, the
\* temporary file is removed, the error is raised and needs_saving stays
\* true; the target file never holds a partial snapshot.
C8_AtomicPersistence ==
    /\ [](file.exists => file.complete)
    /\ [][(save_pc # "idle" /\ last_save' = "raised") =>
           (/\ file' = file
            /\ tmp' = NoState
            /\ needs_saving /\ needs_saving'
            /\ save_pc' = "idle"
            /\ (pc = "final_save" => (pc' = "raised" /\ exc'.kind = "save")))]_vars

\* a failed write after a good checkpoint: the file is the older snapshot
C8_Witness ==
    /\ last_save = "raised"
    /\ file.exists /\ file.complete
    /\ file # Snapshot
    /\ tmp = NoState
    /\ needs_saving

\* the sizes do not match the limits once integers are expanded
MismatchedDimensions(a) ==
    LET dim(m) == IF m.integral THEN Len(Limits) ELSE Len(m.t)
    IN  ~(/\ Len(Limits) = dim(a.initial_mesh_size)
          /\ Len(Limits) = dim(a.refinement_mesh_size))

ConfigurationError(a) ==
    MismatchedDimensions(a) \/ (a.load /\ a.initial_state.exists)

\* C9 (configuration errors): with sizes that do not match the limits, or
\* with an explicit initial_state and load=True, the construction raises a
\* ValueError: no state is created, no checkpoint is read, nothing is
\* scheduled.
C9_ConfigErrorsFatal ==
    (pc # "call" /\ ConfigurationError(args)) =>
        /\ pc = "ctor_error"
        /\ exc.kind = "ValueError"
        /\ Blank
        /\ load_result = "none"
        /\ ntasks = 0 /\ task_futures = NoTasks

\* a refused construction with load=True and a checkpoint at the save path
C9_Witness ==
    /\ pc = "ctor_error"
    /\ MismatchedDimensions(args)
    /\ args.load /\ file.exists

\* the state of a run started without load: the initial mesh queued
FreshQueue(a) ==
    LET n == IF a.initial_mesh_size.integral THEN a.initial_mesh_size.n
             ELSE a.initial_mesh_size.t[1]
    IN  [s \in Simplex |->
            IF s \in {<<"mesh", 0, n, i>> : i \in 1 .. n}
            THEN "queued" ELSE "untracked"]

\* C10 (load semantics): when reading the checkpoint fails with an I/O error,
\* load_quiet=False makes the construction fail with that error, and
\* load_quiet=True makes the run start with the state of a run without load:
\* the initial mesh queued, no queued position, no result.
C10_LoadSemantics ==
    (pc # "call" /\ load_result = "IOError") =>
        IF ~args.load_quiet
        THEN /\ pc = "ctor_error"
             /\ exc.kind = "IOError"
             /\ simplex_queue = EmptySimplexQueue
             /\ ntasks = 0
        ELSE /\ pc # "ctor_error"
             /\ ~initial_state.exists
             /\ (pc = "ready") =>
                    /\ simplex_queue = FreshQueue(args)
                    /\ position_queue = {}
                    /\ nodes = <<>> /\ rejected_results = <<>>
                    /\ LET cs == create_state([args EXCEPT !.load = FALSE,
                                                           !.load_quiet = FALSE],
                                               file, FALSE)
                       IN  /\ simplex_queue = cs.simplex_queue
                           /\ position_queue = cs.position_queue
                           /\ nodes = cs.nodes
                           /\ rejected_results = cs.rejected_results

\* a run that starts fresh although a checkpoint is at the save path
C10_Witness ==
    /\ pc = "ready"
    /\ load_result = "IOError"
    /\ args.load_quiet
    /\ file.exists /\ file.results # <<>>

\* the position was expanded: a refinement simplex around it is tracked
Expanded(q, pos) == \E s \in RefinementSimplices : s[2] = pos /\ q[s] # "untracked"

\* the run was seeded with two positions within dist_cutoff of each other and
\* of an accepted node, no position expanded yet, and a stencil is configured
SeededPair ==
    /\ Constructed
    /\ initial_state.exists
    /\ refinement_stencil # 0
    /\ Cardinality(initial_state.position_queue) = 2
    /\ \A p, q \in initial_state.position_queue : distance(p, q) < DistCutoff
    /\ \E n \in AcceptedSet(initial_state.results) :
            \A p \in initial_state.position_queue : distance(p, n.pos) < DistCutoff
    /\ \A p \in Pos : ~Expanded(initial_state.simplex_queue, p)

\* the accepted nodes are still those the run started with
NodesUnchanged ==
    nodes = SelectSeq(initial_state.results,
                      LAMBDA r : ~IsRejected(gap_threshold, r))

\* the accepted nodes within dist_cutoff of pos that are not at pos itself
NodesNear(pos) ==
    {i \in 1 .. Len(nodes) :
        nodes[i].pos # pos /\ distance(pos, nodes[i].pos) < DistCutoff}

\* C11 (deduplication bound): of two positions seeded within
\* dist_cutoff of each other and of an accepted node, at most
\* recheck_count_cutoff are expanded into new simplices (recheck_pos_dist
\* enabled; the accepted nodes are those the run started with).
C11_DedupBound ==
    (SeededPair /\ args.recheck_pos_dist /\ NodesUnchanged) =>
        Cardinality({p \in initial_state.position_queue :
                        Expanded(simplex_queue, p)}) <= RecheckCountCutoff

\* What lines 232-243 and 296-308 guarantee for the seeded pair: a drained
\* position is expanded iff at most recheck_count_cutoff accepted nodes, not
\* counting nodes at exactly that position, lie within dist_cutoff of it.
\* The check counts accepted nodes, not expansions.
C11_ExpandedAsCounted ==
    (SeededPair /\ args.recheck_pos_dist /\ NodesUnchanged) =>
        \A p \in initial_state.position_queue :
            /\ Expanded(simplex_queue, p) =>
                    Cardinality(NodesNear(p)) <= RecheckCountCutoff
            /\ (p \notin position_queue /\ exc.kind # "TypeError") =>
                    (Expanded(simplex_queue, p) <=>
                        Cardinality(NodesNear(p)) <= RecheckCountCutoff)

\* both positions of the pair expanded, next to one accepted node
C11_Witness ==
    /\ SeededPair /\ args.recheck_pos_dist /\ NodesUnchanged
    /\ \A p \in initial_state.position_queue : Expanded(simplex_queue, p)
    /\ \E p \in initial_state.position_queue :
            Cardinality(NodesNear(p)) = RecheckCountCutoff

\* the neighbour-distance query from the position of r1 yields r2
Yields(r1, r2) ==
    /\ r2 \in SeqSet(get_neighbour_iterator(nodes, r1.pos))
    /\ distance(r1.pos, r2.pos)
            \in SeqSet(get_neighbour_distance_iterator(nodes, r1.pos))

\* C12 (neighbour completeness): for distinct accepted results r1, r2 of the
\* container whose minimum-image distance is below dist_cutoff, the
\* neighbour-distance query from r1.pos yields the distance to r2 and the
\* query from r2.pos yields the distance to r1, also when the two positions
\* are equal and when they are close across the periodic boundary.
C12_NeighbourCompleteness ==
    \A r1, r2 \in SeqSet(nodes) :
        (r1 # r2 /\ distance(r1.pos, r2.pos) < DistCutoff) =>
            (Yields(r1, r2) /\ Yields(r2, r1))

\* the same for results at different positions
C12_DistinctPositions ==
    \A r1, r2 \in SeqSet(nodes) :
        (r1.pos # r2.pos /\ distance(r1.pos, r2.pos) < DistCutoff) =>
            (Yields(r1, r2) /\ Yields(r2, r1))

\* the saved state a Controller was built from: the checkpoint file or the
\* initial_state of the caller
Saved == IF args.load THEN file ELSE args.initial_state

\* the Controller has just been built from a saved state
BuiltFromSaved == pc = "ready" /\ initial_state.exists

\* the results a saved state holds as accepted, as rejected
SavedAccepted(s) ==
    {r \in SeqSet(s.results) : ~IsRejected(s.gap_threshold, r)}
SavedRejected(s) ==
    {r \in SeqSet(s.results) : IsRejected(s.gap_threshold, r)}

\* C15 (checkpoint round-trip): a Controller State built from a saved state
\* has the accepted results, the rejected results and the queue contents of
\* the saved state.
C15_RoundTrip ==
    BuiltFromSaved =>
        /\ SeqSet(nodes) = SavedAccepted(Saved)
        /\ SeqSet(rejected_results) = SavedRejected(Saved)
        /\ simplex_queue = Saved.simplex_queue
        /\ position_queue = Saved.position_queue

\* C15 (checkpoint round-trip), amended: the state built holds every saved
\* result once, classified under the gap_threshold of the new Controller; the
\* accepted and the rejected results are those of the saved state when that
\* gap_threshold is the one the state was saved with. The Position Queue is
\* that of the saved state, and so is the Simplex Queue unless
\* force_initial_mesh is set: then the simplices of the initial mesh are
\* queued again and every other simplex keeps its state.
C15_RoundTripSameThreshold ==
    BuiltFromSaved =>
        /\ Len(nodes) + Len(rejected_results) = Len(Saved.results)
        /\ SeqSet(nodes) =
                {r \in SeqSet(Saved.results) : ~IsRejected(args.gap_threshold, r)}
        /\ SeqSet(rejected_results) =
                {r \in SeqSet(Saved.results) : IsRejected(args.gap_threshold, r)}
        /\ (args.gap_threshold = Saved.gap_threshold) =>
                /\ SeqSet(nodes) = SavedAccepted(Saved)
                /\ SeqSet(rejected_results) = SavedRejected(Saved)
        /\ position_queue = Saved.position_queue
        /\ simplex_queue =
                [s \in Simplex |->
                    IF args.force_initial_mesh /\ s \in MeshSimplices
                    THEN "queued" ELSE Saved.simplex_queue[s]]

\* a state loaded from a checkpoint with an accepted and a rejected result
\* and tracked simplices, under the gap_threshold it was saved with
C15_Witness ==
    /\ BuiltFromSaved
    /\ load_result = "ok"
    /\ args.gap_threshold = Saved.gap_threshold
    /\ ~args.force_initial_mesh
    /\ nodes # <<>> /\ rejected_results # <<>>
    /\ simplex_queue # EmptySimplexQueue

\* a step in which process_result ingests a new node at pos, with a
\* refinement stencil configured and pos not queued already
NodeProcessed(pos) ==
    /\ run' = run /\ Constructed
    /\ Len(nodes') = Len(nodes) + 1
    /\ nodes'[Len(nodes')].pos = pos
    /\ refinement_stencil # 0
    /\ pos \notin position_queue

\* the check a drain of pos would apply to the accepted nodes after the step
DrainCheckAfter(pos) ==
    (~args.recheck_pos_dist)
        \/ check_pos_refinement(nodes', pos, RecheckCountCutoff)

\* C17 (one deduplication check): the check applied when a result is
\* processed is the one applied when a position is drained: with the accepted
\* set unchanged, the position of a new node is queued iff it would pass the
\* check of the drain.
C17_SameCheck ==
    [][\A pos \in Pos :
        NodeProcessed(pos) =>
            ((pos \in position_queue') <=> DrainCheckAfter(pos))]_vars

\* C17 (one deduplication check), amended: result processing tolerates no
\* other accepted node within dist_cutoff (count_cutoff 0), the drain
\* tolerates recheck_count_cutoff of them and checks only if recheck_pos_dist
\* is set; a position queued by result processing passes the drain while the
\* accepted set is unchanged, not the other way round.
C17_StricterAtProcessing ==
    [][\A pos \in Pos :
        NodeProcessed(pos) =>
            /\ (pos \in position_queue') <=>
                    Cardinality({i \in 1 .. Len(nodes') :
                        /\ nodes'[i].pos # pos
                        /\ distance(pos, nodes'[i].pos) < DistCutoff}) = 0
            /\ (pos \in position_queue') => DrainCheckAfter(pos)]_vars

\* a node was processed whose position is not queued although the drain,
\* with recheck_pos_dist set, would let it pass
C17_Witness ==
    /\ pc = "yield" /\ refinement_stencil # 0 /\ args.recheck_pos_dist
    /\ nodes # <<>>
    /\ Len(nodes) > Len(SelectSeq(initial_state.results,
                                  LAMBDA r : ~IsRejected(gap_threshold, r)))
    /\ LET pos == nodes[Len(nodes)].pos
       IN  /\ pos \notin position_queue
           /\ ~check_pos_refinement(nodes, pos, DefaultCountCutoff)
           /\ check_pos_refinement(nodes, pos, RecheckCountCutoff)

\* the results ingested in this run
ResultsInRun ==
    Len(nodes) + Len(rejected_results) - Len(initial_state.results)

\* the simplices that reached state finished in this run
FinishedInRun ==
    {s \in Simplex : /\ simplex_queue[s] = "finished"
                     /\ initial_state.simplex_queue[s] # "finished"}

\* the run started from the queue contents of its initial state
PlainStart == Constructed /\ StartedClean /\ ~mesh_forced(args)

\* C19 (snapshot consistency): in every state a checkpoint can observe, the
\* simplices finished in this run are those whose result has been ingested:
\* as many results as finished simplices, and no task is still pending on a
\* simplex that is not running.
C19_SnapshotConsistency ==
    PlainStart =>
        /\ Cardinality(FinishedInRun) = ResultsInRun
        /\ \A t \in DOMAIN task_futures :
                task_futures[t].status = "pending" =>
                    simplex_queue[task_futures[t].simplex] = "running"

\* What lines 281-282 guarantee: a result is ingested in the step in which
\* its task completes and its simplex is set finished, and in no other
\* step; the position of the result is added in that step or not at all.
C19_ProcessedAtomically ==
    [][(Constructed /\ run' = run) =>
        /\ (Len(nodes') + Len(rejected_results')
                # Len(nodes) + Len(rejected_results)) <=>
           (\E t \in DOMAIN task_futures :
                /\ task_futures[t].status = "pending"
                /\ t \in DOMAIN task_futures'
                /\ task_futures'[t].status = "done")
        /\ \A t \in DOMAIN task_futures :
                (/\ task_futures[t].status = "pending"
                 /\ t \in DOMAIN task_futures'
                 /\ task_futures'[t].status = "done") =>
                    /\ simplex_queue'[task_futures[t].simplex] = "finished"
                    /\ Len(nodes') + Len(rejected_results')
                            = Len(nodes) + Len(rejected_results) + 1
        /\ (position_queue' \ position_queue # {}) =>
                /\ Len(nodes') = Len(nodes) + 1
                /\ position_queue' =
                        position_queue \cup {nodes'[Len(nodes')].pos}]_vars

\* C20 (run termination): a run whose objective never raises and whose
\* minimizations all complete reaches the state in which both queues are
\* drained and the run has returned (runs that take every number for a
\* future leave the states followed and are not judged).
C20_RunTerminates ==
    (pc = "ready") ~>
        \/ /\ pc = "done"
           /\ finished(simplex_queue)
           /\ position_queue = {}
        \/ FuturesExhausted

\* the same, for a run that only has to return
C20_RunReturns ==
    (pc = "ready") ~> (pc \in {"done", "raised"} \/ FuturesExhausted)

\* C18 (the minimizer): a call of root_nelder_mead ends: it returns one
\* result, or the exception of the objective leaves it; it raises for no
\* other reason. The result has success = False iff on exit the evaluation
\* count has reached maxfev or the iteration count has reached maxiter.
C18_Minimizer ==
    /\ [](/\ nm.result.returned <=> nm.pc = "done"
          /\ nm.raised <=> nm.pc = "raised"
          /\ nm.pc = "done" =>
                /\ nm.result.success <=>
                        ~(nm.fcalls >= nm.maxfun \/ nm.iterations >= nm.maxiter)
                /\ nm.result.nfev = nm.fcalls
                /\ nm.result.nit = nm.iterations)
    /\ [][/\ nm.pc = "done" => (nm' = nm \/ nm'.pc = "x0")
          /\ (nm'.raised /\ ~nm.raised) =>
                (nm.pc \in Awaits /\ nm'.fcalls = nm.fcalls + 1)]_vars
    /\ (nm.pc = "x0") ~> (nm.pc \in {"done", "raised"})

\* a call that iterated and returned without success at maxiter, with
\* evaluations to spare
C18_Witness ==
    /\ nm.pc = "done"
    /\ ~nm.result.success
    /\ nm.iterations > 1
    /\ nm.iterations >= nm.maxiter
    /\ nm.fcalls < nm.maxfun

\* the moves of a tracked simplex
Lifecycle ==
    {<<"untracked", "queued">>, <<"queued", "running">>,
     <<"running", "finished">>}

\* C16 (simplex lifecycle): within a run a simplex moves only
\* queued -> running -> finished after it was added as queued; it never
\* returns to queued, so no two minimizations are scheduled for one simplex
\* (for runs that start with no running simplex).
C16_SimplexLifecycle ==
    /\ [][(Constructed /\ StartedClean /\ run' = run) =>
            \A s \in Simplex :
                simplex_queue'[s] # simplex_queue[s] =>
                    <<simplex_queue[s], simplex_queue'[s]>> \in Lifecycle]_vars
    /\ [](\A t1, t2 \in DOMAIN task_futures :
            task_futures[t1].simplex = task_futures[t2].simplex => t1 = t2)

\* a step of the fill phase that schedules a minimization
Schedules == ntasks' = ntasks + 1

\* a step of the fill phase that pops a position
Drains == run' = run /\ \E pos \in position_queue :
                            position_queue' = position_queue \ {pos}

\* C14 (scheduling order): no simplex is scheduled while the Position Queue
\* still has a queued position.
C14_PositionsFirst == [][Schedules => position_queue = {}]_vars

\* C14 (scheduling order), amended: within a scheduling pass, while a slot
\* is free, a queued simplex is scheduled before any position is drained: a
\* position is popped only when the Simplex Queue has no queued simplex, and
\* a simplex is scheduled only from the queued ones while a slot is free,
\* whatever the Position Queue holds.
C14_SimplicesFirst ==
    [][/\ Drains => (num_running(simplex_queue) < num_minimize_parallel
                        /\ ~has_queued(simplex_queue))
       /\ Schedules => (num_running(simplex_queue) < num_minimize_parallel
                        /\ has_queued(simplex_queue)
                        /\ num_running(simplex_queue') =
                                num_running(simplex_queue) + 1)]_vars

\* a minimization has been scheduled although positions were queued: no
\* task has completed yet, so the queued positions were there all along
C14_Witness ==
    /\ pc = "fill" /\ exc = NoExc
    /\ ntasks >= 1
    /\ position_queue # {}
    /\ \A i \in DOMAIN task_futures : task_futures[i].status = "pending"
    /\ Len(nodes) + Len(rejected_results) = Len(initial_state.results)

\* the refinement simplices around pos that a step puts into state queued
NewlyQueued(pos) ==
    {s \in RefinementSimplices :
        s[2] = pos /\ simplex_queue'[s] = "queued"}

\* a step that pops pos decides as the position check says
DrainedAsChecked(pos) ==
    LET passes == (~args.recheck_pos_dist)
                    \/ Cardinality(NodesNear(pos)) <= RecheckCountCutoff
    IN  /\ passes <=>
            /\ NewlyQueued(pos) # {}
            /\ \A s \in Simplex :
                    simplex_queue'[s] =
                        IF s \in NewlyQueued(pos) THEN "queued" ELSE simplex_queue[s]
        /\ ~passes => simplex_queue' = simplex_queue

\* C13 (position draining): a popped position is expanded into refinement
\* simplices iff recheck_pos_dist is disabled or at most recheck_count_cutoff
\* accepted nodes, not counting nodes at exactly that position, lie within
\* dist_cutoff of it; otherwise it is discarded and the Simplex Queue is left
\* unchanged.
C13_PositionDraining ==
    [][\A pos \in position_queue :
            (position_queue' = position_queue \ {pos} /\ run' = run) =>
                DrainedAsChecked(pos)]_vars

\* the same for the runs with a refinement stencil
C13_WithStencil ==
    [][\A pos \in position_queue :
            (/\ position_queue' = position_queue \ {pos}
             /\ run' = run
             /\ refinement_stencil # 0) =>
                /\ DrainedAsChecked(pos)
                /\ NewlyQueued(pos) # {} =>
                        Cardinality(NewlyQueued(pos)) = refinement_stencil]_vars

\* the positions a step adds to the Position Queue
PositionsAdded == position_queue' \ position_queue

\* a step of a run in which process_result ingests a result
ResultProcessed ==
    /\ run' = run /\ Constructed
    /\ Len(nodes') + Len(rejected_results')
            = Len(nodes) + Len(rejected_results) + 1

\* C21 (refinement enqueue condition): process_result adds a position to the
\* Position Queue only for a result accepted by add_result, only when a
\* refinement stencil is configured (no entry of refinement_mesh_size is 0),
\* and only when no other accepted node at a different position lies within
\* dist_cutoff of it at that moment; a rejected result adds no position, and
\* a processed result adds at most one position, its own.
C21_EnqueueCondition ==
    [][ResultProcessed =>
        /\ Cardinality(PositionsAdded) <= 1
        /\ (Len(rejected_results') > Len(rejected_results)) =>
                position_queue' = position_queue
        /\ PositionsAdded # {} =>
            /\ Len(nodes') = Len(nodes) + 1
            /\ ~IsRejected(gap_threshold, nodes'[Len(nodes')])
            /\ PositionsAdded = {nodes'[Len(nodes')].pos}
            /\ refinement_stencil # 0
            /\ \A i \in 1 .. Len(Limits) :
                    ExpandedSize(Limits, args.refinement_mesh_size)[i] # 0
            /\ \A j \in 1 .. Len(nodes') :
                    nodes'[j].pos # nodes'[Len(nodes')].pos =>
                        ~(distance(nodes'[Len(nodes')].pos, nodes'[j].pos)
                                < DistCutoff)]_vars

\* a fresh run with a stencil queued the position of its first node, which
\* has been expanded since, and kept the position of a second node, next to
\* the first, out of the queue; a rejected result was processed as well
C21_Witness ==
    /\ Constructed /\ refinement_stencil # 0
    /\ ~initial_state.exists
    /\ Len(nodes) = 2
    /\ nodes[1].pos # nodes[2].pos
    /\ Expanded(simplex_queue, nodes[1].pos)
    /\ position_queue = {}
    /\ rejected_results # <<>>

\* a step in which create_tasks reaches its yield point after the fill phase
ReachesYield == pc = "fill" /\ pc' = "yield"

\* nothing is queued in the two work queues after the step
NoQueuedWork == ~has_queued(simplex_queue') /\ position_queue' = {}

\* C22 (work conservation): each time the scheduling loop reaches its yield
\* point, the number of running simplices equals num_minimize_parallel, or
\* the Simplex Queue has no queued simplex and the Position Queue has no
\* queued position.
C22_WorkConservation ==
    [][ReachesYield =>
        \/ num_running(simplex_queue') = num_minimize_parallel
        \/ NoQueuedWork]_vars

\* What lines 225-250 guarantee at the yield point: the number of running
\* simplices is at least num_minimize_parallel, or neither queue has queued
\* work; the number equals num_minimize_parallel in a run started with no
\* running simplex, and it exceeds it only in a run started with more
\* running simplices than slots. The yield itself changes no queue.
C22_NoFreeSlotWithWork ==
    [][ReachesYield =>
        /\ \/ num_running(simplex_queue') >= num_minimize_parallel
           \/ NoQueuedWork
        /\ StartedClean =>
                \/ num_running(simplex_queue') = num_minimize_parallel
                \/ NoQueuedWork
        /\ num_running(simplex_queue') > num_minimize_parallel =>
                num_running(initial_state.simplex_queue) > num_minimize_parallel
        /\ UNCHANGED <<simplex_queue, position_queue>>]_vars

\* the refinement stencil translated to pos
TranslatedStencil(pos) ==
    {s \in RefinementSimplices : s[2] = pos /\ s[4] <= refinement_stencil}

\* C23 (positions are consumed once): a position leaves the Position Queue
\* only by a pop, one position per pop, and is not tracked after it; in the
\* step of the pop, which no task and no save interleaves, the position is
\* either discarded (Simplex Queue unchanged) or expanded into exactly one
\* queued simplex per stencil entry, the stencil translated to that
\* position; refinement simplices are queued by such a step only.
C23_ConsumedOnce ==
    [][(Constructed /\ run' = run) =>
        /\ \/ position_queue \subseteq position_queue'
           \/ \E pos \in position_queue :
                    position_queue' = position_queue \ {pos}
        /\ \A pos \in position_queue :
            (position_queue' = position_queue \ {pos}) =>
                /\ pos \notin position_queue'
                /\ pc = "fill" /\ save_pc = "idle"
                /\ UNCHANGED <<task_futures, ntasks, nodes, rejected_results>>
                /\ \/ simplex_queue' = simplex_queue
                   \/ /\ refinement_stencil # 0
                      /\ pc' = "fill"
                      /\ Cardinality(TranslatedStencil(pos)) =
                            Product(ExpandedSize(Limits,
                                                 args.refinement_mesh_size))
                      /\ \A s \in Simplex :
                            simplex_queue'[s] =
                                IF s \in TranslatedStencil(pos)
                                THEN "queued" ELSE simplex_queue[s]
                      /\ \A s \in TranslatedStencil(pos) :
                            simplex_queue[s] # "queued"
        /\ \A s \in RefinementSimplices :
            (simplex_queue[s] # "queued" /\ simplex_queue'[s] = "queued") =>
                (s[2] \in position_queue /\ s[2] \notin position_queue')]_vars

\* of two seeded positions one has been expanded and the other, popped
\* later, discarded by the check
C23_Witness ==
    /\ Constructed /\ refinement_stencil # 0 /\ args.recheck_pos_dist
    /\ exc = NoExc
    /\ position_queue = {}
    /\ \E p, q \in initial_state.position_queue :
        /\ Expanded(simplex_queue, p)
        /\ ~Expanded(simplex_queue, q)

\* the simplices a queue tracks
Tracked(q) == {s \in Simplex : q[s] # "untracked"}

\* what a call of generate_simplices returned: one simplex per mesh vertex,
\* prod(mesh_size) simplices that differ by value, each with dim + 1
\* different vertices of dim coordinates
MeshGenerated ==
    (gen.op # "none" /\ ~gen.is_none) =>
        /\ Len(gen.simplices) = Product(gen.mesh_size)
        /\ Cardinality(SeqSet(gen.simplices)) = Product(gen.mesh_size)
        /\ \A k \in 1 .. Len(gen.simplices) :
            /\ Len(gen.simplices[k]) = Len(gen.limits) + 1
            /\ Cardinality(SeqSet(gen.simplices[k])) = Len(gen.limits) + 1
            /\ \A r \in 1 .. Len(gen.simplices[k]) :
                    Len(gen.simplices[k][r]) = Len(gen.limits)

\* the Controller has just been built without a loaded or explicit state
BuiltFresh ==
    pc = "ready" /\ ~args.initial_state.exists /\ load_result # "ok"

\* the mesh simplices of the arguments
InitialMesh ==
    {<<"mesh", 0, Product(ExpandedSize(Limits, args.initial_mesh_size)), i>> :
        i \in 1 .. Product(ExpandedSize(Limits, args.initial_mesh_size))}

\* C24 (initial state): a fresh run starts with exactly
\* prod(initial_mesh_size) simplices, all queued, each with dim + 1 vertices,
\* an empty Position Queue and an empty Result Container; a run built from an
\* initial state without force_initial_mesh starts with exactly the
\* simplices and positions of that state, and with force_initial_mesh the
\* prod(initial_mesh_size) mesh simplices are queued on top of them.
C24_InitialState ==
    /\ MeshGenerated
    /\ BuiltFresh =>
        /\ Cardinality(Tracked(simplex_queue)) =
                Product(ExpandedSize(Limits, args.initial_mesh_size))
        /\ Cardinality(Tracked(simplex_queue)) =
                Len(generate_simplices_vertices(
                        Limits, ExpandedSize(Limits, args.initial_mesh_size)))
        /\ \A s \in Tracked(simplex_queue) : simplex_queue[s] = "queued"
        /\ position_queue = {}
        /\ nodes = <<>> /\ rejected_results = <<>>
    /\ (BuiltFromSaved /\ ~args.force_initial_mesh) =>
        /\ simplex_queue = Saved.simplex_queue
        /\ position_queue = Saved.position_queue
    /\ (BuiltFromSaved /\ args.force_initial_mesh) =>
        /\ Tracked(simplex_queue) = Tracked(Saved.simplex_queue) \cup InitialMesh
        /\ Cardinality(InitialMesh) =
                Product(ExpandedSize(Limits, args.initial_mesh_size))
        /\ \A s \in InitialMesh : simplex_queue[s] = "queued"
        /\ \A s \in Simplex \ InitialMesh :
                simplex_queue[s] = Saved.simplex_queue[s]
        /\ position_queue = Saved.position_queue

\* a mesh of 2 x 3 simplices in two dimensions was generated, and a
\* Controller was built with force_initial_mesh from a state with queued
\* positions whose mesh simplices were finished
C24_Witness ==
    /\ gen.op = "generate_simplices"
    /\ gen.mesh_size = <<2, 3>>
    /\ Len(gen.simplices) = 6
    /\ BuiltFromSaved /\ args.force_initial_mesh
    /\ Saved.position_queue # {}
    /\ \E s \in InitialMesh : Saved.simplex_queue[s] = "finished"

\* C25 (read-only queries): a call of get_neighbour_distance_iterator, of
\* get_all_neighbour_distances or of _check_pos_refinement, for any
\* position, leaves the accepted index, the rejected list, both work queues
\* and needs_saving unchanged; what it returns is computed from the accepted
\* nodes as they are.
C25_QueriesReadOnly ==
    [][(query' # query) =>
        /\ UNCHANGED <<nodes, rejected_results, simplex_queue, position_queue,
                       needs_saving>>
        /\ query'.op \in QueryNames
        /\ query'.op # "_check_pos_refinement" =>
                /\ Len(query'.dists) =
                        Cardinality({i \in 1 .. Len(nodes) :
                                        nodes[i].pos # query'.pos})
                /\ \A i \in 1 .. Len(query'.dists) :
                        query'.dists[i] \in 1 .. (LimitSize \div 2)]_vars

\* the checkpoint is up to date, both queues hold work, and the check was
\* asked about a position next to an accepted node and refused it
C25_Witness ==
    /\ query.op = "_check_pos_refinement" /\ ~query.ret
    /\ ~needs_saving /\ file = Snapshot
    /\ nodes # <<>> /\ rejected_results # <<>>
    /\ \E i \in 1 .. Len(nodes) : nodes[i].pos # query.pos
    /\ num_running(simplex_queue) > 0

\* an iteration of the minimizer has ended (lines 158-163, 216-221)
IterationEnded == nm.iterations >= 1

\* the stored value of every vertex is the objective's value at the vertex
ValuesOfVertices ==
    \A i \in 1 .. N + 1 :
        nm.sim[i] \in DOMAIN nm.values /\ nm.fsim[i] = nm.values[nm.sim[i]]

\* C26: in root_nelder_mead, once the initial simplex is sorted and at the
\* end of every iteration, the values of the simplex are in ascending order
\* (vertex 0 is the best); the best value never increases from one
\* iteration to the next, whichever of reflection, expansion, contraction
\* and shrink ended the iteration; and with a deterministic objective the
\* stored values are the objective's values at the vertices and the
\* returned fun is the objective's value at the returned x.
C26_SortedAndMonotone ==
    [][/\ (IterationEnded' /\ nm'.pc # "idle") =>
            /\ nm'.fsim[1] <= nm'.fsim[N + 1]
            /\ nm'.deterministic => ValuesOfVertices'
       /\ (IterationEnded /\ nm'.pc \notin {"idle", "x0"}) =>
            nm'.fsim[1] <= nm.fsim[1]
       /\ (nm'.result.returned /\ ~nm.result.returned) =>
            /\ nm'.result.x = nm'.sim[1]
            /\ nm'.result.fun = nm'.fsim[1]
            /\ nm'.deterministic =>
                /\ nm'.result.x \in DOMAIN nm'.values
                /\ nm'.result.fun = nm'.values[nm'.result.x]]_vars

\* a call with a deterministic objective has returned after an iteration
\* that swapped the vertices and improved the best value
C26_Witness ==
    /\ nm.pc = "done"
    /\ nm.result.returned
    /\ nm.deterministic
    /\ nm.iterations >= 3
    /\ nm.result.x \notin {X0, Y0}
    /\ nm.result.fun = nm.values[nm.result.x]
    /\ nm.result.fun < nm.values[X0]
    /\ nm.result.fun < nm.values[Y0]

====
